---------------------------- MODULE Spec2Model ----------------------------
(***************************************************************************)
(* A model of zombiezen/const-cstr (src/lib.rs): the ConstCStr handle, its *)
(* unchecked constructor, the const_cstr! macro, the read-only views, the  *)
(* derived comparison traits, and a foreign consumer that scans from the   *)
(* pointer handed out by as_ptr.                                           *)
(*                                                                         *)
(* A &'static str is modelled as the sequence of its UTF-8 bytes, a        *)
(* ConstCStr as the record [val |-> bytes].  A value returned by an        *)
(* operation is a record [ok, v]: ok = FALSE is a panic / abort.           *)
(***************************************************************************)
EXTENDS Integers, Sequences, FiniteSets, TLC

\* Longest literal handed to const_cstr! (in bytes); buffers handed to the
\* unchecked constructor are at most one byte longer.
MaxLen == 2

\* The terminator appended by the macro ("\0").
NUL == 0

\* The bytes literals are made of: NUL, 'a', and the two bytes of U+00E9.
Byte == {NUL, 97, 195, 169}

Slot == {1, 2}

VARIABLES
    inst,    \* Slot -|-> ConstCStr : the instances the caller holds
    origin,  \* Slot -|-> [how, strval] : how each instance was built
    op,      \* the last operation performed
    recv,    \* the slot it was performed on
    other,   \* the second operand of eq / cmp
    out      \* what it returned: [ok, v]

vars == <<inst, origin, op, recv, other, out>>

-----------------------------------------------------------------------------
(* Strings *)

RECURSIVE SeqsUpTo(_)
SeqsUpTo(n) ==
    IF n = 0 THEN {<<>>}
    ELSE LET shorter == SeqsUpTo(n - 1)
         IN  shorter \cup {Append(s, b) : s \in shorter, b \in Byte}

\* A UTF-8 continuation byte (0x80..0xBF).
IsCont(b) == b >= 128 /\ b < 192

\* A two-byte lead (0xC2..0xDF).
IsLead2(b) == b >= 194 /\ b < 224

\* Well-formed UTF-8 over Byte: what a &str may hold.
RECURSIVE IsUtf8(_)
IsUtf8(s) ==
    IF s = <<>> THEN TRUE
    ELSE IF s[1] < 128 THEN IsUtf8(Tail(s))
    ELSE /\ IsLead2(s[1])
         /\ Len(s) >= 2
         /\ IsCont(s[2])
         /\ IsUtf8(Tail(Tail(s)))

\* The string literals a caller may write (a literal may hold "\0").
Literal == {s \in SeqsUpTo(MaxLen) : IsUtf8(s)}

\* The &'static str values a caller may pass to the unchecked constructor.
StaticStr == {s \in SeqsUpTo(MaxLen + 1) : IsUtf8(s)}

\* str::is_char_boundary
is_char_boundary(s, index) ==
    IF index = 0 THEN TRUE
    ELSE IF index >= Len(s) THEN index = Len(s)
    ELSE ~IsCont(s[index + 1])

Ok(v) == [ok |-> TRUE, v |-> v]

Panic == [ok |-> FALSE, v |-> <<>>]

-----------------------------------------------------------------------------
(* ConstCStr *)

from_str_with_nul_unchecked(val) == [val |-> val]

\* Faulty variant: the terminator is put in front (concat!("\0", $strval)).
concat_swapped(strval, lit) == lit \o strval

\* concat!($strval, "\0")
concat(strval, lit) == strval \o lit

\* Faulty variant: the macro forgets the terminator.
const_cstr_noterm(strval) == from_str_with_nul_unchecked(strval)

const_cstr(strval) == from_str_with_nul_unchecked(concat(strval, <<NUL>>))

\* Faulty variant: the whole buffer, terminator included.
as_str_whole(self) == Ok(self.val)

\* Faulty variant: one byte too many is cut off (len() - 2).
as_str_short(self) ==
    IF Len(self.val) < 2 THEN Panic
    ELSE IF ~is_char_boundary(self.val, Len(self.val) - 2) THEN Panic
    ELSE Ok(SubSeq(self.val, 1, Len(self.val) - 2))

\* &self.val[..self.val.len() - 1]: the subtraction underflows on an empty
\* buffer and the slice panics off a character boundary.
as_str(self) ==
    IF Len(self.val) = 0 THEN Panic
    ELSE IF ~is_char_boundary(self.val, Len(self.val) - 1) THEN Panic
    ELSE Ok(SubSeq(self.val, 1, Len(self.val) - 1))

as_bytes(self) == as_str(self)

\* Faulty variant: the terminator is dropped.
as_bytes_with_nul_strip(self) == as_str(self)

as_bytes_with_nul(self) == Ok(self.val)

\* A pointer: the static buffer it points into and the byte offset in it.
\* Faulty variant: the pointer is one byte past the beginning.
as_ptr_off1(self) == Ok([buf |-> self.val, off |-> 1])

as_ptr(self) == Ok([buf |-> self.val, off |-> 0])

\* Invariant A: the buffer is non-empty and its last byte is NUL.
InvA(self) == Len(self.val) >= 1 /\ self.val[Len(self.val)] = NUL

\* Invariant B: no byte before the last one is NUL.
InvB(self) == \A i \in 1..(Len(self.val) - 1) : self.val[i] # NUL

\* Invariant C: the bytes before the terminator are valid text.
InvC(self) ==
    /\ Len(self.val) >= 1
    /\ is_char_boundary(self.val, Len(self.val) - 1)
    /\ IsUtf8(SubSeq(self.val, 1, Len(self.val) - 1))

\* CStr::from_bytes_with_nul_unchecked: a CStr wrapping the bytes as they
\* are.  Handing it bytes that are not NUL-terminated or that hold an
\* interior NUL is undefined behaviour: the build either wraps them anyway
\* or aborts.
from_bytes_with_nul_unchecked(bytes) ==
    IF InvA([val |-> bytes]) /\ InvB([val |-> bytes])
    THEN {Ok([inner |-> bytes])}
    ELSE {Ok([inner |-> bytes]), Panic}

\* Faulty variant: the C string is built from the bytes without the terminator.
as_cstr_nonul(self) ==
    IF as_bytes(self).ok
    THEN from_bytes_with_nul_unchecked(as_bytes(self).v)
    ELSE {Panic}

as_cstr(self) == from_bytes_with_nul_unchecked(as_bytes_with_nul(self).v)

\* Display::fmt: what is written to the formatter.
fmt(self) == as_str(self)

\* Faulty variant: the default has no terminator at all.
default_noterm == from_str_with_nul_unchecked(<<>>)

default == const_cstr(<<>>)

-----------------------------------------------------------------------------
(* The derived traits: all act on the one field, val *)

\* Ord for str / [u8]: lexicographic on the bytes.
RECURSIVE StrCmp(_, _)
StrCmp(x, y) ==
    IF x = <<>> /\ y = <<>> THEN "Equal"
    ELSE IF x = <<>> THEN "Less"
    ELSE IF y = <<>> THEN "Greater"
    ELSE IF x[1] < y[1] THEN "Less"
    ELSE IF x[1] > y[1] THEN "Greater"
    ELSE StrCmp(Tail(x), Tail(y))

\* Faulty variant: the field is compared with the other side's text view.
eq_text(a, b) == as_str(b).ok /\ a.val = as_str(b).v

eq(a, b) == a.val = b.val

\* Faulty variant: the operands are swapped.
cmp_swapped(a, b) == StrCmp(b.val, a.val)

cmp(a, b) == StrCmp(a.val, b.val)

\* Hash for str: the bytes, then 0xff, are written to the hasher.  The hash
\* is modelled as what the hasher is fed.
hash(a) == a.val \o <<255>>

-----------------------------------------------------------------------------
(* The foreign consumer *)

\* Offsets (from the pointer) at which the buffer holds a NUL.
NulOffsets(p) == {i \in 0..(Len(p.buf) - p.off - 1) : p.buf[p.off + i + 1] = NUL}

Min(S) == CHOOSE m \in S : \A n \in S : m <= n

\* CStr::from_ptr: the bytes from the pointer up to and including the first
\* NUL.  A scan that leaves the buffer reads foreign memory (undefined
\* behaviour): it aborts, or runs on through whatever follows.
CStr_from_ptr(p) ==
    IF NulOffsets(p) # {}
    THEN {Ok([inner |-> SubSeq(p.buf, p.off + 1, p.off + Min(NulOffsets(p)) + 1)])}
    ELSE {Panic} \cup
         {Ok([inner |-> SubSeq(p.buf, p.off + 1, Len(p.buf)) \o junk \o <<NUL>>])
             : junk \in {<<>>, <<97>>}}

\* CStr::to_bytes: the bytes without the last one.
to_bytes(c) == SubSeq(c.inner, 1, Len(c.inner) - 1)

\* PartialEq for CStr compares to_bytes.
cstr_eq(c, d) == to_bytes(c) = to_bytes(d)

-----------------------------------------------------------------------------
(* The state machine *)

Init ==
    /\ inst = <<>>
    /\ origin = <<>>
    /\ op = "none"
    /\ recv = 1
    /\ other = 1
    /\ out = Ok(<<>>)

Put(f, s, x) == [t \in (DOMAIN f) \cup {s} |-> IF t = s THEN x ELSE f[t]]

\* A binding is made once: the instances are constants, never reassigned.
Built(s, how, strval, c) ==
    /\ s \notin DOMAIN inst
    /\ inst' = Put(inst, s, c)
    /\ origin' = Put(origin, s, [how |-> how, strval |-> strval])
    /\ op' = how
    /\ recv' = s
    /\ other' = s
    /\ out' = Ok(c)

\* const_cstr!(strval)
ConstCstrMacro(s, strval) ==
    /\ strval \in Literal
    /\ Built(s, "const_cstr", strval, const_cstr(strval))

\* unsafe { ConstCStr::from_str_with_nul_unchecked(val) }
FromStrWithNulUnchecked(s, val) ==
    /\ val \in StaticStr
    /\ Built(s, "unchecked", val, from_str_with_nul_unchecked(val))

\* ConstCStr::default()
Default(s) ==
    /\ s \in Slot
    /\ Built(s, "default", <<>>, default)

\* let t = s (Copy): the reference is duplicated into a fresh binding.
Copy(s, t) ==
    /\ s \in DOMAIN inst
    /\ t \notin DOMAIN inst
    /\ inst' = Put(inst, t, inst[s])
    /\ origin' = Put(origin, t, origin[s])
    /\ op' = "copy"
    /\ recv' = s
    /\ other' = t
    /\ out' = Ok(inst[s])

\* A view or conversion of the instance in slot s.
View(s, name, r) ==
    /\ op' = name
    /\ recv' = s
    /\ other' = s
    /\ out' = r
    /\ UNCHANGED <<inst, origin>>

AsStr(s) ==
    /\ s \in DOMAIN inst
    /\ View(s, "as_str", as_str(inst[s]))

AsBytes(s) ==
    /\ s \in DOMAIN inst
    /\ View(s, "as_bytes", as_bytes(inst[s]))

AsBytesWithNul(s) ==
    /\ s \in DOMAIN inst
    /\ View(s, "as_bytes_with_nul", as_bytes_with_nul(inst[s]))

AsPtr(s) ==
    /\ s \in DOMAIN inst
    /\ View(s, "as_ptr", as_ptr(inst[s]))

AsCstr(s) ==
    /\ s \in DOMAIN inst
    /\ \E r \in as_cstr(inst[s]) : View(s, "as_cstr", r)

Display(s) ==
    /\ s \in DOMAIN inst
    /\ View(s, "fmt", fmt(inst[s]))

AsRefStr(s) ==
    /\ s \in DOMAIN inst
    /\ View(s, "as_ref_str", as_str(inst[s]))

AsRefBytes(s) ==
    /\ s \in DOMAIN inst
    /\ View(s, "as_ref_bytes", as_bytes(inst[s]))

AsRefCStr(s) ==
    /\ s \in DOMAIN inst
    /\ \E r \in as_cstr(inst[s]) : View(s, "as_ref_cstr", r)

FromForStr(s) ==
    /\ s \in DOMAIN inst
    /\ View(s, "into_str", as_str(inst[s]))

FromForBytes(s) ==
    /\ s \in DOMAIN inst
    /\ View(s, "into_bytes", as_bytes(inst[s]))

FromForPtr(s) ==
    /\ s \in DOMAIN inst
    /\ View(s, "into_ptr", as_ptr(inst[s]))

FromForCStr(s) ==
    /\ s \in DOMAIN inst
    /\ \E r \in as_cstr(inst[s]) : View(s, "into_cstr", r)

\* unsafe { CStr::from_ptr(c.as_ptr()) }: the foreign side reads the string.
FromPtr(s) ==
    /\ s \in DOMAIN inst
    /\ \E r \in CStr_from_ptr(as_ptr(inst[s]).v) : View(s, "from_ptr", r)

Binary(s, t, name, r) ==
    /\ op' = name
    /\ recv' = s
    /\ other' = t
    /\ out' = r
    /\ UNCHANGED <<inst, origin>>

\* a == b
Eq(s, t) ==
    /\ s \in DOMAIN inst
    /\ t \in DOMAIN inst
    /\ Binary(s, t, "eq", Ok(eq(inst[s], inst[t])))

\* a.cmp(&b)
Cmp(s, t) ==
    /\ s \in DOMAIN inst
    /\ t \in DOMAIN inst
    /\ Binary(s, t, "cmp", Ok(cmp(inst[s], inst[t])))

\* a.hash(&mut hasher)
Hash(s) ==
    /\ s \in DOMAIN inst
    /\ View(s, "hash", Ok(hash(inst[s])))

Next ==
    \/ \E s \in Slot, strval \in Literal : ConstCstrMacro(s, strval)
    \/ \E s \in Slot, val \in StaticStr : FromStrWithNulUnchecked(s, val)
    \/ \E s \in Slot : Default(s)
    \/ \E s \in Slot, t \in Slot : Copy(s, t)
    \/ \E s \in Slot : AsStr(s)
    \/ \E s \in Slot : AsBytes(s)
    \/ \E s \in Slot : AsBytesWithNul(s)
    \/ \E s \in Slot : AsPtr(s)
    \/ \E s \in Slot : AsCstr(s)
    \/ \E s \in Slot : Display(s)
    \/ \E s \in Slot : AsRefStr(s)
    \/ \E s \in Slot : AsRefBytes(s)
    \/ \E s \in Slot : AsRefCStr(s)
    \/ \E s \in Slot : FromForStr(s)
    \/ \E s \in Slot : FromForBytes(s)
    \/ \E s \in Slot : FromForPtr(s)
    \/ \E s \in Slot : FromForCStr(s)
    \/ \E s \in Slot : FromPtr(s)
    \/ \E s \in Slot, t \in Slot : Eq(s, t)
    \/ \E s \in Slot, t \in Slot : Cmp(s, t)
    \/ \E s \in Slot : Hash(s)

Spec == Init /\ [][Next]_vars

-----------------------------------------------------------------------------
(* Vocabulary of the properties *)

NulFree(s) == \A i \in 1..Len(s) : s[i] # NUL

\* The last operation acted on an instance built by const_cstr!(L).
ByMacro == op # "none" /\ origin[recv].how = "const_cstr"

L == origin[recv].strval

\* x is a strict prefix of y.
StrictPrefix(x, y) == Len(x) < Len(y) /\ x = SubSeq(y, 1, Len(x))

\* Textual (lexicographic byte) order, stated by the first place two texts
\* part.
LexLess(x, y) ==
    \E k \in 0..Len(x) :
        /\ k <= Len(y)
        /\ SubSeq(x, 1, k) = SubSeq(y, 1, k)
        /\ \/ k = Len(x) /\ k < Len(y)
           \/ k < Len(x) /\ k < Len(y) /\ x[k + 1] < y[k + 1]

TextOrder(x, y) ==
    IF x = y THEN "Equal" ELSE IF LexLess(x, y) THEN "Less" ELSE "Greater"

Valid(c) == InvA(c) /\ InvB(c) /\ InvC(c)

ViewOps ==
    {"as_str", "as_bytes", "as_bytes_with_nul", "as_ptr", "as_cstr", "fmt",
     "default", "as_ref_str", "as_ref_bytes", "as_ref_cstr",
     "into_str", "into_bytes", "into_ptr", "into_cstr"}

-----------------------------------------------------------------------------
(* Properties *)

\* C1: for a literal L without a NUL byte, as_str() and as_bytes() of
\* const_cstr!(L) return exactly L (the terminator is in neither view).
C1_TextViewsAreTheLiteral ==
    (ByMacro /\ NulFree(L) /\ op \in {"as_str", "as_bytes"}) => out = Ok(L)

C1_Witness ==
    ByMacro /\ NulFree(L) /\ Len(L) = 2 /\ op = "as_bytes"

\* C2: for every literal L, as_bytes_with_nul() of const_cstr!(L) is the
\* bytes of L followed by one 0x00, len(L) + 1 bytes in all.
C2_BytesWithNulIsLiteralPlusNul ==
    (ByMacro /\ op = "as_bytes_with_nul") =>
        /\ out.ok
        /\ out.v = L \o <<NUL>>
        /\ Len(out.v) = Len(L) + 1

C2_Witness ==
    ByMacro /\ op = "as_bytes_with_nul" /\ Len(L) = 2 /\ ~NulFree(L)

\* C3 as stated: for every literal L, as_bytes_with_nul() of const_cstr!(L)
\* has 0x00 at index len(L) and no 0x00 at a smaller index.
C3_AllLiteralsTerminatedNoInteriorNul ==
    (ByMacro /\ op = "as_bytes_with_nul") =>
        /\ out.ok
        /\ Len(out.v) > Len(L)
        /\ out.v[Len(L) + 1] = NUL
        /\ \A i \in 1..Len(L) : out.v[i] # NUL

\* C3 amended: for every literal L without a NUL byte, as_bytes_with_nul()
\* of const_cstr!(L) has 0x00 at index len(L) and no 0x00 at a smaller index
\* (Invariants A and B hold for the instance).
C3_NulFreeLiteralsTerminatedNoInteriorNul ==
    (ByMacro /\ NulFree(L) /\ op = "as_bytes_with_nul") =>
        /\ out.ok
        /\ Len(out.v) > Len(L)
        /\ out.v[Len(L) + 1] = NUL
        /\ \A i \in 1..Len(L) : out.v[i] # NUL
        /\ InvA(inst[recv])
        /\ InvB(inst[recv])

C3_Witness ==
    ByMacro /\ NulFree(L) /\ op = "as_bytes_with_nul" /\ Len(L) = 1

\* C4 as stated, read on the instances const_cstr! builds: the bytes read
\* from as_ptr() up to and including the first 0x00 are exactly
\* as_bytes_with_nul().
C4_PointerRoundTripAnyInstance ==
    (ByMacro /\ op = "from_ptr") =>
        out.ok /\ out.v.inner = as_bytes_with_nul(inst[recv]).v

\* C4 amended: for an instance whose buffer ends in NUL and has no interior
\* NUL (Invariants A and B), the bytes read from as_ptr() up to and
\* including the first 0x00 are exactly as_bytes_with_nul().
C4_PointerRoundTripValidInstance ==
    (op = "from_ptr" /\ InvA(inst[recv]) /\ InvB(inst[recv])) =>
        out.ok /\ out.v.inner = as_bytes_with_nul(inst[recv]).v

C4_Witness ==
    /\ op = "from_ptr"
    /\ InvA(inst[recv])
    /\ InvB(inst[recv])
    /\ Len(inst[recv].val) = 3

\* Two instances show the same text.
SameText(a, b) == as_str(a).ok /\ as_str(b).ok /\ as_str(a).v = as_str(b).v

\* C5 as stated: any two instances with the same as_str(), however built,
\* compare equal and hash identically.
C5_SameTextEqualAnyInstances ==
    /\ (op = "eq" /\ SameText(inst[recv], inst[other])) => out.v = TRUE
    /\ (op = "hash") =>
           \A t \in DOMAIN inst :
               SameText(inst[recv], inst[t]) => out.v = hash(inst[t])

\* C5 amended: any two instances whose buffers end in NUL (Invariant A) and
\* that have the same as_str() compare equal and hash identically.
C5_SameTextEqualTerminatedInstances ==
    /\ (op = "eq" /\ InvA(inst[recv]) /\ InvA(inst[other])
           /\ SameText(inst[recv], inst[other])) => out.v = TRUE
    /\ (op = "hash" /\ InvA(inst[recv])) =>
           \A t \in DOMAIN inst :
               (InvA(inst[t]) /\ SameText(inst[recv], inst[t]))
                   => out.v = hash(inst[t])

C5_Witness ==
    /\ op = "eq"
    /\ recv # other
    /\ origin[recv].how = "const_cstr"
    /\ origin[other].how = "unchecked"
    /\ InvA(inst[other])
    /\ SameText(inst[recv], inst[other])
    /\ Len(inst[recv].val) = 2

\* C6: for two instances built by const_cstr! from NUL-free literals, the
\* derived ordering is the textual ordering of their as_str(), also when
\* one text is a strict prefix of the other.
C6_OrderIsTextOrder ==
    (/\ op = "cmp"
     /\ origin[recv].how = "const_cstr"
     /\ origin[other].how = "const_cstr"
     /\ NulFree(origin[recv].strval)
     /\ NulFree(origin[other].strval)) =>
        /\ as_str(inst[recv]).ok
        /\ as_str(inst[other]).ok
        /\ out.v = TextOrder(as_str(inst[recv]).v, as_str(inst[other]).v)

C6_Witness ==
    /\ op = "cmp"
    /\ origin[recv].how = "const_cstr"
    /\ origin[other].how = "const_cstr"
    /\ NulFree(origin[recv].strval)
    /\ NulFree(origin[other].strval)
    /\ StrictPrefix(origin[recv].strval, origin[other].strval)
    /\ origin[recv].strval # <<>>
    /\ out.v = "Less"

\* C7: ConstCStr::default() equals const_cstr!(""): its as_str() and
\* as_bytes() are empty and its as_bytes_with_nul() is the one byte 0x00.
C7_DefaultIsEmpty ==
    /\ (op = "default") => out.ok /\ eq(out.v, const_cstr(<<>>))
    /\ (op # "none" /\ origin[recv].how = "default") =>
           /\ (op \in {"as_str", "as_bytes"}) => out = Ok(<<>>)
           /\ (op = "as_bytes_with_nul") => out = Ok(<<NUL>>) /\ Len(out.v) = 1

C7_Witness ==
    op = "as_bytes_with_nul" /\ origin[recv].how = "default"

\* C8: on an instance that satisfies Invariants A-C every operation other
\* than construction succeeds: none panics, the empty-text instance
\* included.
C8_ViewsTotalOnValidInstances ==
    (op \in ViewOps /\ Valid(inst[recv])) => out.ok

C8_Witness ==
    op = "as_ref_str" /\ Valid(inst[recv]) /\ inst[recv].val = <<NUL>>

\* C9: const_cstr! on a literal with an embedded NUL still yields an
\* instance, the instance violates Invariant B, and a scan from as_ptr() to
\* the first 0x00 obtains a strict prefix of as_bytes_with_nul().
C9_EmbeddedNulTruncates ==
    (ByMacro /\ ~NulFree(L)) =>
        /\ (op = "const_cstr") => out.ok /\ out.v.val = L \o <<NUL>>
        /\ ~InvB(inst[recv])
        /\ (op = "from_ptr") =>
               /\ out.ok
               /\ StrictPrefix(out.v.inner, as_bytes_with_nul(inst[recv]).v)

C9_Witness ==
    ByMacro /\ ~NulFree(L) /\ op = "from_ptr" /\ L[1] # NUL

\* C10: for const_cstr!(L) with L NUL-free, as_cstr() holds exactly
\* as_bytes_with_nul() = L ++ [0x00], and equals the C string read from
\* as_ptr() up to the first NUL.
C10_CstrIsBufferAndPointerString ==
    (ByMacro /\ NulFree(L) /\ op = "as_cstr") =>
        /\ out.ok
        /\ out.v.inner = as_bytes_with_nul(inst[recv]).v
        /\ out.v.inner = L \o <<NUL>>
        /\ \A r \in CStr_from_ptr(as_ptr(inst[recv]).v) :
               r.ok /\ cstr_eq(out.v, r.v)

C10_Witness ==
    ByMacro /\ NulFree(L) /\ op = "as_cstr" /\ Len(L) = 2

=============================================================================
